---- MODULE Spec2Model ----
(***************************************************************************)
(* Model of closure/conformal_predictor.py: the ConfromalPredictor object  *)
(* (load_dataset, nonconformity_func, calibrate, test_threshold, predict,  *)
(* predict_testset) together with the module-level calibrated ratios of    *)
(* nonconformity_funcs and the seeded generator.                            *)
(*                                                                         *)
(* Abstractions.  A rotation is an integer angle and a translation an      *)
(* integer coordinate (one dimension each); the geodesic distance and the  *)
(* Euclidean norm are then both |a - b|.  Floating point numbers are exact *)
(* rationals <<n, d>> (d > 0, lowest terms); <<0, 0>> is NaN.  Strings the *)
(* code searches with "in" are sequences of one-character strings.         *)
(***************************************************************************)
EXTENDS Integers, Sequences, FiniteSets, TLC

VARIABLES
    nonconformity_func_name,  \* self.nonconformity_func_name
    seed,                     \* self.seed
    dataset,                  \* self.dataset
    calibration_set,          \* self.calibration_set
    test_set,                 \* self.test_set
    F,                        \* nonconformity_funcs.calibrated_R_ratio / calibrated_t_ratio
    cp_random,                \* state of the generator seeded by cp.random.seed(seed)
    epsilon,                  \* argument of the most recent calibrate call
    calibrated,               \* how the most recent calibrate call ended ("none" before any)
    nonconformity_threshold,  \* value the most recent calibrate call returned
    test_epsilon,             \* value the most recent test_threshold call returned
    nonocnformaty_threshold,  \* argument of the running predict_testset call
    predict_data,             \* predict_testset's local list of records
    k,                        \* predict_testset's loop index (where the loop was left)
    saved,                    \* what np.save persisted: [written, results]
    pc,                       \* where the run script is: "constructed", "idle" (loaded),
                              \* "raised" (load_dataset or calibrate raised: the script
                              \* has no handler and ends), "tested" / "predicted" (it
                              \* ends after test_threshold or predict_testset)
    outcome,                  \* how the most recent call ended: "ok" or the exception raised
    twin                      \* the same program run on a copy of the data whose test
                              \* observations carry other ground truth (same seed, same calls)

vars == <<nonconformity_func_name, seed, dataset, calibration_set, test_set, F, cp_random,
          epsilon, calibrated, nonconformity_threshold, test_epsilon,
          nonocnformaty_threshold, predict_data, k, saved, pc, outcome, twin>>

-----------------------------------------------------------------------------
(* Exact arithmetic standing for Python / numpy floats.                     *)

Abs(i) == IF i < 0 THEN -i ELSE i

Min(a, b) == IF a < b THEN a ELSE b

RECURSIVE GCD(_, _)
GCD(a, b) == IF b = 0 THEN a ELSE GCD(b, a % b)

NaN == <<0, 0>>

IsNaN(x) == x[2] = 0

\* the rational n / d in lowest terms with a positive denominator (d # 0)
Rat(n, d) ==
    LET g == GCD(Abs(n), Abs(d))
        s == IF d < 0 THEN -1 ELSE 1
    IN  <<(s * n) \div g, (s * d) \div g>>

FromInt(i) == <<i, 1>>

Zero == FromInt(0)

One == FromInt(1)

RAdd(x, y) == IF IsNaN(x) \/ IsNaN(y) THEN NaN ELSE Rat(x[1] * y[2] + y[1] * x[2], x[2] * y[2])

RSub(x, y) == IF IsNaN(x) \/ IsNaN(y) THEN NaN ELSE Rat(x[1] * y[2] - y[1] * x[2], x[2] * y[2])

RMul(x, y) == IF IsNaN(x) \/ IsNaN(y) THEN NaN ELSE Rat(x[1] * y[1], x[2] * y[2])

\* x / y for y # 0 (the callers raise ZeroDivisionError themselves)
RDiv(x, y) == IF IsNaN(x) \/ IsNaN(y) THEN NaN ELSE Rat(x[1] * y[2], x[2] * y[1])

RAbs(x) == <<Abs(x[1]), x[2]>>

\* IEEE comparisons: every comparison with NaN is false
RLess(x, y) == ~IsNaN(x) /\ ~IsNaN(y) /\ x[1] * y[2] < y[1] * x[2]

RGreater(x, y) == RLess(y, x)

RECURSIVE RSum(_)
RSum(s) == IF s = <<>> THEN Zero ELSE RAdd(Head(s), RSum(Tail(s)))

\* cp.max / np.max: NaN propagates
RECURSIVE RMax(_)
RMax(s) ==
    IF Len(s) = 1 THEN Head(s)
    ELSE LET m == RMax(Tail(s))
         IN  IF IsNaN(Head(s)) \/ IsNaN(m) THEN NaN
             ELSE IF RLess(Head(s), m) THEN m ELSE Head(s)

RECURSIVE RMin(_)
RMin(s) ==
    IF Len(s) = 1 THEN Head(s)
    ELSE LET m == RMin(Tail(s))
         IN  IF IsNaN(Head(s)) \/ IsNaN(m) THEN NaN
             ELSE IF RLess(m, Head(s)) THEN m ELSE Head(s)

RECURSIVE Insert(_, _)
Insert(x, s) ==
    IF s = <<>> THEN <<x>>
    ELSE IF RLess(Head(s), x) THEN <<Head(s)>> \o Insert(x, Tail(s))
    ELSE <<x>> \o s

RECURSIVE Sorted(_)
Sorted(s) == IF s = <<>> THEN <<>> ELSE Insert(Head(s), Sorted(Tail(s)))

\* linear interpolation between the order statistics of the sorted array srt
\* around position q * (n - 1)
Interpolate(srt, q) ==
    LET n == Len(srt)
        num == q[1] * (n - 1)
        lo == num \div q[2]
        hi == Min(lo + 1, n - 1)
    IN  RAdd(srt[lo + 1],
             RMul(Rat(num - lo * q[2], q[2]), RSub(srt[hi + 1], srt[lo + 1])))

\* np.quantile(a, q) for 0 <= q <= 1 and a non-empty array (method "linear")
Quantile(a, q) ==
    IF \E i \in 1..Len(a) : IsNaN(a[i]) THEN NaN ELSE Interpolate(Sorted(a), q)

-----------------------------------------------------------------------------
(* Nonconformity function names.                                            *)

Chars_R == <<"R">>

Chars_t == <<"t">>

Chars_Rt == <<"R", "t">>

Chars_mean == <<"m", "e", "a", "n">>

Chars_max == <<"m", "a", "x">>

Chars_normalized == <<"n", "o", "r", "m", "a", "l", "i", "z", "e", "d">>

Chars_median_R == <<"m", "e", "d", "i", "a", "n", "_", "R">>

Chars_cost == <<"c", "o", "s", "t">>

Chars_foo == <<"f", "o", "o">>

\* Python's  sub in s  for strings
IsIn(sub, s) == \E i \in 0..(Len(s) - Len(sub)) : SubSeq(s, i + 1, i + Len(sub)) = sub

\* the names of the run script: [normalized_]<mean|max>_<R|t|Rt>
FuncName(normalize, agg, comp) ==
    (IF normalize THEN Chars_normalized \o <<"_">> ELSE <<>>) \o agg \o <<"_">> \o comp

\* {rotation-only, translation-only, joint} x {mean, max} x {normalized, raw}
SupportedNames ==
    {FuncName(n, a, c) : n \in BOOLEAN, a \in {Chars_mean, Chars_max},
                         c \in {Chars_R, Chars_t, Chars_Rt}}

UnsupportedNames == {Chars_median_R, Chars_cost, Chars_foo}

\* the names the constructor is given
FuncNames ==
    {FuncName(FALSE, Chars_max, Chars_R), FuncName(TRUE, Chars_mean, Chars_t),
     FuncName(FALSE, Chars_mean, Chars_Rt)}
    \cup UnsupportedNames

-----------------------------------------------------------------------------
(* Scoring.                                                                 *)

\* gpu_utils.get_rotation_dist and the Euclidean norm, in one dimension
Dist(a, b) == RAbs(RSub(a, b))

IntsToRats(s) == [i \in 1..Len(s) |-> FromInt(s[i])]

\* the aggregation of one center's weighted disagreements
Aggregate(aggregate_method, ws) ==
    IF aggregate_method = "mean" THEN RDiv(RSum(ws), FromInt(Len(ws))) ELSE RMax(ws)

\* nonconformity_funcs.nonconformity_func: one score per center.  Per hypothesis the
\* disagreement is R_ratio * d_R + t_ratio * d_t, weighted by the hypothesis's
\* confidence; normalize divides the weights by their sum; the weighted
\* disagreements are aggregated by their mean or their maximum.
F_nonconformity_func(center_Rs, center_ts, pred_Rs, pred_ts, pred_scores, aggregate_method, normalize, R_ratio, t_ratio) ==
    LET weight(m) == IF normalize
                     THEN RDiv(FromInt(pred_scores[m]), RSum(IntsToRats(pred_scores)))
                     ELSE FromInt(pred_scores[m])
        dis(i, m) == RAdd(RMul(R_ratio, Dist(center_Rs[i], FromInt(pred_Rs[m]))),
                          RMul(t_ratio, Dist(center_ts[i], FromInt(pred_ts[m]))))
    IN  [i \in 1..Len(center_Rs) |->
            Aggregate(aggregate_method,
                      [m \in 1..Len(pred_Rs) |-> RMul(weight(m), dis(i, m))])]

aggregate_method_of(name) == IF IsIn(Chars_mean, name) THEN "mean" ELSE "max"

normalize_of(name) == IsIn(Chars_normalized, name)

\* the if / elif chain of ConfromalPredictor.nonconformity_func: the ratios the
\* name selects, or the exception
ratios_of(name, ratios) ==
    IF IsIn(Chars_Rt, name)
        THEN [err |-> "ok", R_ratio |-> ratios.calibrated_R_ratio,
              t_ratio |-> ratios.calibrated_t_ratio]
    ELSE IF IsIn(Chars_R, name) THEN [err |-> "ok", R_ratio |-> One, t_ratio |-> Zero]
    ELSE IF IsIn(Chars_t, name) THEN [err |-> "ok", R_ratio |-> Zero, t_ratio |-> One]
    ELSE [err |-> "ValueError", R_ratio |-> NaN, t_ratio |-> NaN]

\* the return statement of ConfromalPredictor.nonconformity_func
score_with(name, sel, center_Rs, center_ts, pred_Rs, pred_ts, pred_scores) ==
    IF sel.err # "ok" THEN [err |-> sel.err, scores |-> <<>>]
    ELSE [err |-> "ok",
          scores |-> F_nonconformity_func(center_Rs, center_ts, pred_Rs, pred_ts,
                                          pred_scores, aggregate_method_of(name),
                                          normalize_of(name), sel.R_ratio, sel.t_ratio)]

\* ConfromalPredictor.nonconformity_func: [err |-> "ok", scores |-> ...] or the
\* exception raised
nonconformity_func(name, ratios, center_Rs, center_ts, pred_Rs, pred_ts, pred_scores) ==
    score_with(name, ratios_of(name, ratios), center_Rs, center_ts, pred_Rs, pred_ts,
               pred_scores)

-----------------------------------------------------------------------------
(* The files of data_dir and the bounds of the inputs.                      *)

\* number of images of the large object (object 9)
BigImages == 51

\* hypotheses per image in the files, before the [:, :top_hypotheses_num] slice
RawHypotheses == 3

\* self.top_hypotheses_num
TopHypothesesNum == 2

\* self.init_sample_num
InitSampleNum == 2

\* the loop bound of predict_testset
PredictCount == 50

Image(gt_R, gt_t, pred_Rs, pred_ts, pred_scores) ==
    [gt_R |-> gt_R, gt_t |-> gt_t, pred_Rs |-> pred_Rs, pred_ts |-> pred_ts,
     pred_scores |-> pred_scores]

\* hypotheses beyond the three written out repeat the last one
Pad(s) == [m \in 1..RawHypotheses |-> IF m <= Len(s) THEN s[m] ELSE s[Len(s)]]

\* <dataset>_gt_poses_<id>.npy, _out_poses_<id>.npy and _out_scores_<id>.npy, per image.
\* Object 1: the best hypotheses have the ground-truth rotation.  Object 2: the
\* best hypotheses of image 0 have the ground-truth translation.
RawData(id) ==
    IF id = 1 THEN
        << Image(0, 0, Pad(<<0, 0, 5>>), Pad(<<1, 3, 9>>), Pad(<<2, 1, 1>>)),
           Image(0, 2, Pad(<<0, 0, 7>>), Pad(<<2, 2, 0>>), Pad(<<1, 1, 3>>)) >>
    ELSE IF id = 2 THEN
        << Image(1, 0, Pad(<<3, 2, 1>>), Pad(<<0, 0, 4>>), Pad(<<1, 2, 1>>)),
           Image(4, 1, Pad(<<2, 5, 4>>), Pad(<<1, 4, 1>>), Pad(<<2, 1, 1>>)) >>
    ELSE
        [j \in 1..BigImages |->
            LET i == j - 1
            IN  Image(i % 3, i % 2, Pad(<<(i % 3) + 1, i % 2, 9>>),
                      Pad(<<(i % 2) + 2, i % 3, 9>>), Pad(<<1 + (i % 2), 1, 1>>))]

\* the (object_ids, calibration_set_size) arguments of load_dataset: up to two
\* calibration observations, and one request larger than the data
LoadArguments ==
    ({<<1>>, <<2>>, <<1, 2>>, <<9>>} \X {0, 1, 2}) \cup {<< <<1>>, 3 >>}

\* the seeds of the constructor (the run script passes seed=0)
Seeds == {0}

\* the epsilon arguments of calibrate: -1/10, 0, 1/10, 1/2, 1, 11/10
Epsilons == {Rat(-1, 10), Zero, Rat(1, 10), Rat(1, 2), One, Rat(11, 10)}

\* the thresholds a caller without a calibrated one passes to test_threshold and
\* predict_testset
ThresholdInputs == {FromInt(2)}

\* what np.quantile does with an empty array depends on the numpy release: it
\* returns nan or raises IndexError
EmptyQuantileBuilds == {"nan", "IndexError"}

\* ground-truth changes (rotation, translation) applied to the twin's test observations
TwinShifts == {<<1, 2>>}

-----------------------------------------------------------------------------
(* Dataset and load_dataset.                                                *)

EmptyDataset ==
    [data_ids |-> <<>>, gt_Rs |-> <<>>, gt_ts |-> <<>>, pred_Rs |-> <<>>, pred_ts |-> <<>>,
     pred_scores |-> <<>>, object_ids |-> <<>>, image_ids |-> <<>>, size |-> 0]

RECURSIVE Concat(_)
Concat(ss) == IF ss = <<>> THEN <<>> ELSE Head(ss) \o Concat(Tail(ss))

\* a[ids] for an array a (0-based ids)
Take(a, ids) == [i \in 1..Len(ids) |-> a[ids[i] + 1]]

\* a[:, :top]
Top(a, top) == SubSeq(a, 1, Min(top, Len(a)))

\* the fields of the ConfromalPredictor, the module globals and the position of the
\* running call, as one record
World ==
    [nonconformity_func_name |-> nonconformity_func_name, seed |-> seed,
     dataset |-> dataset, calibration_set |-> calibration_set, test_set |-> test_set,
     F |-> F, cp_random |-> cp_random, epsilon |-> epsilon, calibrated |-> calibrated,
     nonconformity_threshold |-> nonconformity_threshold, test_epsilon |-> test_epsilon,
     nonocnformaty_threshold |-> nonocnformaty_threshold, predict_data |-> predict_data,
     k |-> k, saved |-> saved, pc |-> pc, outcome |-> outcome]

Commit(w) ==
    /\ nonconformity_func_name' = w.nonconformity_func_name
    /\ seed' = w.seed
    /\ dataset' = w.dataset
    /\ calibration_set' = w.calibration_set
    /\ test_set' = w.test_set
    /\ F' = w.F
    /\ cp_random' = w.cp_random
    /\ epsilon' = w.epsilon
    /\ calibrated' = w.calibrated
    /\ nonconformity_threshold' = w.nonconformity_threshold
    /\ test_epsilon' = w.test_epsilon
    /\ nonocnformaty_threshold' = w.nonocnformaty_threshold
    /\ predict_data' = w.predict_data
    /\ k' = w.k
    /\ saved' = w.saved
    /\ pc' = w.pc
    /\ outcome' = w.outcome

\* self.dataset: the per-object files concatenated in the order of object_ids
full_dataset(raw, object_ids, top) ==
    LET per(f(_)) == Concat([p \in 1..Len(object_ids) |->
                         [j \in 1..Len(raw[object_ids[p]]) |-> f(<<p, j>>)]])
        img(pj) == raw[object_ids[pj[1]]][pj[2]]
        gt_R(pj) == img(pj).gt_R
        gt_t(pj) == img(pj).gt_t
        pred_R(pj) == Top(img(pj).pred_Rs, top)
        pred_t(pj) == Top(img(pj).pred_ts, top)
        pred_s(pj) == Top(img(pj).pred_scores, top)
        obj(pj) == object_ids[pj[1]]
        image(pj) == pj[2] - 1
        n == Len(per(obj))
    IN  [data_ids |-> [i \in 1..n |-> i - 1],
         gt_Rs |-> per(gt_R), gt_ts |-> per(gt_t),
         pred_Rs |-> per(pred_R), pred_ts |-> per(pred_t), pred_scores |-> per(pred_s),
         object_ids |-> per(obj), image_ids |-> per(image), size |-> n]

\* self.calibration_set
calibration_subset(ds, calibration_ids, calibration_set_size) ==
    [data_ids |-> calibration_ids,
     gt_Rs |-> Take(ds.gt_Rs, calibration_ids),
     gt_ts |-> Take(ds.gt_ts, calibration_ids),
     pred_Rs |-> Take(ds.pred_Rs, calibration_ids),
     pred_ts |-> Take(ds.pred_ts, calibration_ids),
     pred_scores |-> Take(ds.pred_scores, calibration_ids),
     object_ids |-> Take(ds.object_ids, calibration_ids),
     image_ids |-> Take(ds.image_ids, calibration_ids),
     size |-> calibration_set_size]

\* [i for i in range(self.data_size) if i not in calibration_ids]
RECURSIVE test_ids_from(_, _, _)
test_ids_from(i, data_size, calibration_ids) ==
    IF i >= data_size THEN <<>>
    ELSE (IF \E j \in 1..Len(calibration_ids) : calibration_ids[j] = i THEN <<>> ELSE <<i>>)
         \o test_ids_from(i + 1, data_size, calibration_ids)

\* self.test_set
test_subset(ds, test_ids, calibration_set_size) ==
    [data_ids |-> test_ids,
     gt_Rs |-> Take(ds.gt_Rs, test_ids),
     gt_ts |-> Take(ds.gt_ts, test_ids),
     pred_Rs |-> Take(ds.pred_Rs, test_ids),
     pred_ts |-> Take(ds.pred_ts, test_ids),
     pred_scores |-> Take(ds.pred_scores, test_ids),
     object_ids |-> Take(ds.object_ids, test_ids),
     image_ids |-> Take(ds.object_ids, test_ids),
     size |-> ds.size - calibration_set_size]

\* load_dataset from the np.random.choice call on, ds being self.dataset
load_split(w, ds, calibration_set_size, calibration_ids, test_ids) ==
    IF calibration_set_size > ds.size
        \* np.random.choice: cannot take a larger sample than the population
        THEN [w EXCEPT !.dataset = ds, !.outcome = "ValueError", !.pc = "raised"]
    ELSE IF test_ids = <<>>
        \* np.array([]) is a float array: indexing with it raises IndexError
        THEN [w EXCEPT !.dataset = ds,
                       !.calibration_set =
                           calibration_subset(ds, calibration_ids, calibration_set_size),
                       !.outcome = "IndexError", !.pc = "raised"]
    ELSE [w EXCEPT !.dataset = ds,
                   !.calibration_set =
                       calibration_subset(ds, calibration_ids, calibration_set_size),
                   !.test_set = test_subset(ds, test_ids, calibration_set_size),
                   !.outcome = "ok", !.pc = "idle"]

\* ConfromalPredictor.load_dataset; raw holds the files of data_dir and
\* calibration_ids is what np.random.choice drew
load_dataset(w, raw, object_ids, calibration_set_size, calibration_ids) ==
    load_split(w, full_dataset(raw, object_ids, TopHypothesesNum), calibration_set_size,
               calibration_ids,
               test_ids_from(0, Len(Concat([p \in 1..Len(object_ids) |->
                                               raw[object_ids[p]]])),
                             calibration_ids))

\* np.random.seed(s) in the constructor, then np.random.choice(data_size, size,
\* replace=False) as the generator's first use: the choice is the head of the
\* permutation of 0..data_size-1 that numpy's generator (MT19937, shuffled from the
\* last position down) produces.  Its first entries for seed 0 and the data sizes
\* of the files; <<>> where they are not tabulated.
seeded_permutation(s, data_size) ==
    IF s # 0 THEN <<>>
    ELSE IF data_size = 2 THEN <<1, 0>>
    ELSE IF data_size = 4 THEN <<2, 3, 1, 0>>
    ELSE IF data_size = 51 THEN <<29, 11, 10, 22>>
    ELSE IF data_size = 52 THEN <<28, 37, 11, 34>>
    ELSE <<>>

\* the sequences of calibration_set_size distinct data ids np.random.choice returns:
\* the head of the seeded permutation, or any sequence of distinct ids where the
\* permutation is not tabulated (none is used when the population is too small:
\* load_dataset then raises)
CalibrationIdChoices(s, data_size, calibration_set_size) ==
    IF calibration_set_size > data_size THEN {<<>>}
    ELSE IF Len(seeded_permutation(s, data_size)) >= calibration_set_size
        THEN {SubSeq(seeded_permutation(s, data_size), 1, calibration_set_size)}
    ELSE {ids \in [1..calibration_set_size -> 0..(data_size - 1)] :
             \A i, j \in 1..calibration_set_size : i # j => ids[i] # ids[j]}

\* the files of the twin run: the ground truth of every image outside the
\* calibration ids is shifted, nothing else differs
TwinRaw(object_ids, calibration_ids, shift) ==
    [id \in {object_ids[p] : p \in 1..Len(object_ids)} |->
        LET p == CHOOSE q \in 1..Len(object_ids) : object_ids[q] = id
            offset == Len(Concat([q \in 1..(p - 1) |-> RawData(object_ids[q])]))
            inCal(j) == \E c \in 1..Len(calibration_ids) :
                            calibration_ids[c] = offset + j - 1
        IN  [j \in 1..Len(RawData(id)) |->
                IF inCal(j) THEN RawData(id)[j]
                ELSE [RawData(id)[j] EXCEPT !.gt_R = @ + shift[1], !.gt_t = @ + shift[2]]]]

Files(object_ids) == [id \in {object_ids[p] : p \in 1..Len(object_ids)} |-> RawData(id)]

-----------------------------------------------------------------------------
(* calibrate and test_threshold.                                            *)

\* float(np.quantile(scores, q)): [err |-> "ok", value |-> ...] or the exception
np_quantile(scores, q, build) ==
    IF RLess(q, Zero) \/ RLess(One, q)
        THEN [err |-> "ValueError", value |-> NaN]   \* Quantiles must be in the range [0, 1]
    ELSE IF scores = <<>>
        THEN IF build = "nan" THEN [err |-> "ok", value |-> NaN]
             ELSE [err |-> "IndexError", value |-> NaN]
    ELSE [err |-> "ok", value |-> Quantile(scores, q)]

\* the loops of calibrate and test_threshold: the score of every observation's
\* ground-truth pose under self.nonconformity_func, or the exception of the first call
gt_scores(name, ratios, ds) ==
    IF ds.size > 0 /\ ratios_of(name, ratios).err # "ok"
        THEN [err |-> ratios_of(name, ratios).err, scores |-> <<>>]
    ELSE [err |-> "ok",
          scores |-> [i \in 1..ds.size |->
              nonconformity_func(name, ratios, <<FromInt(ds.gt_Rs[i])>>,
                                 <<FromInt(ds.gt_ts[i])>>, ds.pred_Rs[i], ds.pred_ts[i],
                                 ds.pred_scores[i]).scores[1]]]

\* the first loop of the joint branch: F.nonconformity_func with fixed ratios
component_scores(name, ds, R_ratio, t_ratio) ==
    [i \in 1..ds.size |->
        F_nonconformity_func(<<FromInt(ds.gt_Rs[i])>>, <<FromInt(ds.gt_ts[i])>>,
                             ds.pred_Rs[i], ds.pred_ts[i], ds.pred_scores[i],
                             aggregate_method_of(name), normalize_of(name),
                             R_ratio, t_ratio)[1]]

\* a calibrate call that raised err, the module's ratios being `ratios` by then:
\* nothing is returned and the script ends
calibrate_raised(w, eps, ratios, err) ==
    [w EXCEPT !.epsilon = eps, !.F = ratios, !.calibrated = err, !.outcome = err,
              !.pc = "raised"]

\* return nonconformity_threshold
calibrate_returned(w, eps, ratios, threshold) ==
    [w EXCEPT !.epsilon = eps, !.F = ratios, !.calibrated = "ok", !.outcome = "ok",
              !.nonconformity_threshold = threshold]

\* the final  float(np.quantile(nonconformity_scores, 1 - epsilon)), q being its outcome
calibrate_quantile(w, eps, ratios, q) ==
    IF q.err # "ok" THEN calibrate_raised(w, eps, ratios, q.err)
    ELSE calibrate_returned(w, eps, ratios, q.value)

\* the scoring loop over the calibration set (sc its outcome) and the quantile
calibrate_scored(w, eps, build, ratios, sc) ==
    IF sc.err # "ok" THEN calibrate_raised(w, eps, ratios, sc.err)
    ELSE calibrate_quantile(w, eps, ratios, np_quantile(sc.scores, RSub(One, eps), build))

\* the single-component branch of calibrate
calibrate_single(w, eps, build) ==
    calibrate_scored(w, eps, build, w.F,
                     gt_scores(w.nonconformity_func_name, w.F, w.calibration_set))

\* "Recalibrate with correct ratios": the scores are computed once the module's
\* ratios are `ratios`
calibrate_joint_pass2(w, eps, build, ratios) ==
    calibrate_scored(w, eps, build, ratios,
                     gt_scores(w.nonconformity_func_name, ratios, w.calibration_set))

\* calibrate_ratios with the recalibration scored before the ratios are assigned
calibrate_ratios_late(w, eps, build, qR, qt) ==
    IF qR.err # "ok" THEN calibrate_raised(w, eps, w.F, qR.err)
    ELSE IF qt.err # "ok" THEN calibrate_raised(w, eps, w.F, qt.err)
    ELSE IF qR.value = Zero THEN calibrate_raised(w, eps, w.F, "ZeroDivisionError")
    ELSE IF qt.value = Zero
        THEN calibrate_raised(w, eps,
                              [w.F EXCEPT !.calibrated_R_ratio = RDiv(One, qR.value)],
                              "ZeroDivisionError")
    ELSE calibrate_scored(w, eps, build,
                          [calibrated_R_ratio |-> RDiv(One, qR.value),
                           calibrated_t_ratio |-> RDiv(One, qt.value)],
                          gt_scores(w.nonconformity_func_name, w.F, w.calibration_set))

\* the joint branch from the two component quantiles (qR, qt) on
calibrate_ratios(w, eps, build, qR, qt) ==
    IF qR.err # "ok" THEN calibrate_raised(w, eps, w.F, qR.err)
    ELSE IF qt.err # "ok" THEN calibrate_raised(w, eps, w.F, qt.err)
    ELSE IF qR.value = Zero THEN calibrate_raised(w, eps, w.F, "ZeroDivisionError")
    ELSE IF qt.value = Zero
        THEN calibrate_raised(w, eps,
                              [w.F EXCEPT !.calibrated_R_ratio = RDiv(One, qR.value)],
                              "ZeroDivisionError")
    ELSE calibrate_joint_pass2(w, eps, build,
                               [calibrated_R_ratio |-> RDiv(One, qR.value),
                                calibrated_t_ratio |-> RDiv(One, qt.value)])

\* the joint branch of calibrate
calibrate_joint(w, eps, build) ==
    calibrate_ratios(w, eps, build,
        np_quantile(component_scores(w.nonconformity_func_name, w.calibration_set,
                                     One, Zero), RSub(One, eps), build),
        np_quantile(component_scores(w.nonconformity_func_name, w.calibration_set,
                                     Zero, One), RSub(One, eps), build))

\* ConfromalPredictor.calibrate
calibrate(w, eps, build) ==
    IF ~IsIn(Chars_Rt, w.nonconformity_func_name) THEN calibrate_single(w, eps, build)
    ELSE calibrate_joint(w, eps, build)

\* test_threshold after its scoring loop, sc being the loop's outcome
test_counted(w, threshold, sc) ==
    IF sc.err # "ok" THEN [w EXCEPT !.outcome = sc.err, !.pc = "tested"]
    ELSE [w EXCEPT !.outcome = "ok", !.pc = "tested",
                   !.test_epsilon =
                       IF w.test_set.size = 0 THEN NaN
                       ELSE Rat(Cardinality({i \in 1..w.test_set.size :
                                                RGreater(sc.scores[i], threshold)}),
                                w.test_set.size)]

\* ConfromalPredictor.test_threshold
test_threshold(w, threshold) ==
    test_counted(w, threshold, gt_scores(w.nonconformity_func_name, w.F, w.test_set))

-----------------------------------------------------------------------------
(* predict: sampling, closure search, enclosing balls.                      *)

\* the generator behind cp.random: a full-period congruential generator
rng_next(s) == (5 * s + 3) % 16

RECURSIVE rng_after(_, _)
rng_after(s, n) == IF n = 0 THEN s ELSE rng_after(rng_next(s), n - 1)

\* the n-th draw from state s (n >= 1), reduced to the range 0..2
draw(s, n) == rng_after(s, n) % 3

\* self.closure_params, with the search reduced to one walk of one sub-step
closure_params == [n_iterations |-> 1, n_optimal_perturbations |-> 1, step |-> <<1, 2>>,
                   score_tolerance |-> <<1, 1000>>]

\* gpu_utils.sample_convex_combination: n centers, each the average of the M
\* hypotheses under weights 1..3 drawn from the generator (M draws per center)
sample_convex_combination(pred_Rs, pred_ts, n, rng) ==
    LET M == Len(pred_Rs)
        u(i, m) == FromInt(1 + draw(rng, (i - 1) * M + m))
        total(i) == RSum([m \in 1..M |-> u(i, m)])
        mean(i, xs) == RDiv(RSum([m \in 1..M |-> RMul(u(i, m), FromInt(xs[m]))]), total(i))
    IN  [Rs |-> [i \in 1..n |-> mean(i, pred_Rs)],
         ts |-> [i \in 1..n |-> mean(i, pred_ts)],
         rng |-> rng_after(rng, n * M)]

\* the elements of s at the positions where keep holds, in order
RECURSIVE Filter(_, _)
Filter(s, keep) ==
    IF s = <<>> THEN <<>>
    ELSE (IF Head(keep) THEN <<Head(s)>> ELSE <<>>) \o Filter(Tail(s), Tail(keep))

\* the scores of the poses (Rs, ts) against the hypotheses of env (the arguments of
\* predict: name, ratios, pred_Rs, pred_ts, pred_scores, threshold)
env_scores(env, Rs, ts) ==
    nonconformity_func(env.name, env.ratios, Rs, ts, env.pred_Rs, env.pred_ts,
                       env.pred_scores)

\* the below-threshold mask  nonconformity_scores < nonconformity_threshold
below(scores, threshold) == [i \in 1..Len(scores) |-> RLess(scores[i], threshold)]

\* the endpoints of one walk per feasible pose: a half step in a drawn direction
\* for the rotation and for the translation (two draws per pose)
walk(xs, rng, which) ==
    [i \in 1..Len(xs) |->
        RAdd(xs[i], RMul(closure_params.step, FromInt(draw(rng, 2 * i - which) - 1)))]

\* position of the lowest of a non-empty sequence of scores, found in one pass:
\* a later score replaces the best so far only when it is lower by more than
\* score_tolerance, so scores that differ by rounding alone keep the earlier one
RECURSIVE ArgMinFrom(_, _, _)
ArgMinFrom(scores, best, j) ==
    IF j > Len(scores) THEN best
    ELSE ArgMinFrom(scores,
                    IF RLess(RAdd(scores[j], closure_params.score_tolerance), scores[best])
                        THEN j ELSE best,
                    j + 1)

ArgMin(scores) == ArgMinFrom(scores, 1, 2)

\* the feasible set grown by the best feasible endpoint, if there is one
grown(xs, ends, scores, keep) ==
    IF \A i \in 1..Len(keep) : ~keep[i] THEN xs
    ELSE xs \o <<Filter(ends, keep)[ArgMin(Filter(scores, keep))]>>

\* ClosureFoundationPose(...).run(): an empty feasible set ends the search at once
\* with an empty result; otherwise, n_iterations times, every feasible pose walks
\* one step, the endpoints scoring below the threshold are feasible, and the best
\* n_optimal_perturbations (1) of them joins the set
RECURSIVE closure_run(_, _, _, _, _)
closure_iterate(env, Rs, ts, iterations, rng, endR, endt, scores) ==
    closure_run(env,
                grown(Rs, endR, scores, below(scores, env.threshold)),
                grown(ts, endt, scores, below(scores, env.threshold)),
                iterations - 1, rng_after(rng, 2 * Len(Rs)))

closure_walks(env, Rs, ts, iterations, rng, endR, endt) ==
    closure_iterate(env, Rs, ts, iterations, rng, endR, endt,
                    env_scores(env, endR, endt).scores)

closure_run(env, Rs, ts, iterations, rng) ==
    IF iterations = 0 \/ Rs = <<>> THEN [Rs |-> Rs, ts |-> ts, rng |-> rng]
    ELSE closure_walks(env, Rs, ts, iterations, rng, walk(Rs, rng, 1), walk(ts, rng, 0))

\* closure.miniball.miniball / rotation_miniball in one dimension: the midpoint and
\* the half width of the set (the set is not empty)
miniball(xs) ==
    [center |-> RDiv(RAdd(RMin(xs), RMax(xs)), FromInt(2)),
     radius |-> RDiv(RSub(RMax(xs), RMin(xs)), FromInt(2))]

predict_raised(err, rng) ==
    [err |-> err, minimax_center_R |-> NaN, minimax_center_t |-> NaN,
     error_bound_R |-> NaN, error_bound_t |-> NaN, R_set |-> <<>>, t_set |-> <<>>,
     rng |-> rng]

\* the return statement of predict, from the two balls
predict_returned(found, ball_R, ball_t) ==
    [err |-> "ok", minimax_center_R |-> ball_R.center, minimax_center_t |-> ball_t.center,
     error_bound_R |-> ball_R.radius, error_bound_t |-> ball_t.radius,
     R_set |-> found.Rs, t_set |-> found.ts, rng |-> found.rng]

\* predict after closure.run() returned found: the enclosing balls, which an
\* empty set fails with EmptyFeasibleSet
predict_balls(found) ==
    IF found.Rs = <<>> THEN predict_raised("EmptyFeasibleSet", found.rng)
    ELSE predict_returned(found, miniball(found.Rs), miniball(found.ts))

\* predict from the scores (sc) of the sampled centers on
predict_scored(env, centers, sc) ==
    IF sc.err # "ok" THEN predict_raised(sc.err, centers.rng)
    ELSE predict_balls(closure_run(env,
                                   Filter(centers.Rs, below(sc.scores, env.threshold)),
                                   Filter(centers.ts, below(sc.scores, env.threshold)),
                                   closure_params.n_iterations, centers.rng))

\* predict from the sampled centers on
predict_sampled(env, centers) ==
    predict_scored(env, centers, env_scores(env, centers.Rs, centers.ts))

\* ConfromalPredictor.predict, with the generator state made explicit
predict(name, ratios, pred_Rs, pred_ts, pred_scores, threshold, rng) ==
    predict_sampled([name |-> name, ratios |-> ratios, pred_Rs |-> pred_Rs,
                     pred_ts |-> pred_ts, pred_scores |-> pred_scores,
                     threshold |-> threshold],
                    sample_convex_combination(pred_Rs, pred_ts, InitSampleNum, rng))

-----------------------------------------------------------------------------
(* predict_testset.                                                         *)

\* predict_data = []
predict_testset_begin(w, threshold) ==
    [w EXCEPT !.nonocnformaty_threshold = threshold, !.predict_data = <<>>, !.k = 0,
              !.pc = "predicting"]

\* the record of test observation i (1-based) built from what predict returned
\* (time_cost, a wall-clock reading, is left out)
record_of(ts, i, r) ==
    [object_id |-> ts.object_ids[i], image_id |-> ts.image_ids[i],
     data_id |-> ts.data_ids[i], gt_Rs |-> ts.gt_Rs[i], gt_ts |-> ts.gt_ts[i],
     pred_Rs |-> ts.pred_Rs[i], pred_ts |-> ts.pred_ts[i],
     pred_scores |-> ts.pred_scores[i],
     minimax_center_R |-> r.minimax_center_R, minimax_center_t |-> r.minimax_center_t,
     minimax_center_err_R |-> Dist(r.minimax_center_R, FromInt(ts.gt_Rs[i])),
     minimax_center_err_t |-> Dist(r.minimax_center_t, FromInt(ts.gt_ts[i])),
     error_bound_R |-> r.error_bound_R, error_bound_t |-> r.error_bound_t,
     R_set |-> r.R_set, t_set |-> r.t_set]

\* the rest of an iteration, r being what predict returned or raised
predict_testset_record(w, r) ==
    IF r.err # "ok"
        THEN [w EXCEPT !.outcome = r.err, !.pc = "predicted", !.cp_random = r.rng]
    ELSE [w EXCEPT !.predict_data = Append(@, record_of(w.test_set, w.k + 1, r)),
                   !.k = @ + 1, !.cp_random = r.rng]

\* predict_testset_step with the observation's ground truth handed to predict in
\* place of the best hypothesis
predict_testset_step_gt(w) ==
    IF w.k >= w.test_set.size
        THEN [w EXCEPT !.outcome = "IndexError", !.pc = "predicted"]
    ELSE predict_testset_record(w,
             predict(w.nonconformity_func_name, w.F,
                     [w.test_set.pred_Rs[w.k + 1] EXCEPT ![1] = w.test_set.gt_Rs[w.k + 1]],
                     [w.test_set.pred_ts[w.k + 1] EXCEPT ![1] = w.test_set.gt_ts[w.k + 1]],
                     w.test_set.pred_scores[w.k + 1],
                     w.nonocnformaty_threshold, w.cp_random))

\* one iteration of  for k in range(50)
predict_testset_step(w) ==
    IF w.k >= w.test_set.size
        \* self.test_set.pred_Rs[k]: index out of bounds
        THEN [w EXCEPT !.outcome = "IndexError", !.pc = "predicted"]
    ELSE predict_testset_record(w,
             predict(w.nonconformity_func_name, w.F, w.test_set.pred_Rs[w.k + 1],
                     w.test_set.pred_ts[w.k + 1], w.test_set.pred_scores[w.k + 1],
                     w.nonocnformaty_threshold, w.cp_random))

\* after the loop: np.save(..., predict_data)
predict_testset_save(w) ==
    [w EXCEPT !.saved = [written |-> TRUE, results |-> w.predict_data],
              !.outcome = "ok", !.pc = "predicted"]

\* the loop, run until it is left
RECURSIVE predict_loop(_)
predict_loop(w) ==
    IF w.pc # "predicting" THEN w
    ELSE IF w.k >= PredictCount THEN predict_testset_save(w)
    ELSE predict_loop(predict_testset_step(w))

\* ConfromalPredictor.predict_testset
predict_testset(w, threshold) == predict_loop(predict_testset_begin(w, threshold))

-----------------------------------------------------------------------------
(* The state machine.                                                       *)

Construct(name, s) ==
    [nonconformity_func_name |-> name, seed |-> s,
     dataset |-> EmptyDataset, calibration_set |-> EmptyDataset, test_set |-> EmptyDataset,
     F |-> [calibrated_R_ratio |-> One, calibrated_t_ratio |-> One],
     cp_random |-> s % 16, epsilon |-> NaN, calibrated |-> "none",
     nonconformity_threshold |-> NaN, test_epsilon |-> NaN,
     nonocnformaty_threshold |-> NaN, predict_data |-> <<>>, k |-> 0,
     saved |-> [written |-> FALSE, results |-> <<>>], pc |-> "constructed", outcome |-> "ok"]

Start(w) ==
    /\ nonconformity_func_name = w.nonconformity_func_name
    /\ seed = w.seed
    /\ dataset = w.dataset
    /\ calibration_set = w.calibration_set
    /\ test_set = w.test_set
    /\ F = w.F
    /\ cp_random = w.cp_random
    /\ epsilon = w.epsilon
    /\ calibrated = w.calibrated
    /\ nonconformity_threshold = w.nonconformity_threshold
    /\ test_epsilon = w.test_epsilon
    /\ nonocnformaty_threshold = w.nonocnformaty_threshold
    /\ predict_data = w.predict_data
    /\ k = w.k
    /\ saved = w.saved
    /\ pc = w.pc
    /\ outcome = w.outcome

Init ==
    \E name \in FuncNames, s \in Seeds :
        /\ Start(Construct(name, s))
        /\ twin = Construct(name, s)

LoadDataset ==
    /\ pc = "constructed"
    /\ \E arguments \in LoadArguments, shift \in TwinShifts :
       LET object_ids == arguments[1]
           calibration_set_size == arguments[2]
       IN
        \E calibration_ids \in
              CalibrationIdChoices(seed,
                                   full_dataset(Files(object_ids), object_ids,
                                                TopHypothesesNum).size,
                                   calibration_set_size) :
            /\ Commit(load_dataset(World, Files(object_ids), object_ids,
                                   calibration_set_size, calibration_ids))
            /\ twin' = load_dataset(twin, TwinRaw(object_ids, calibration_ids, shift),
                                    object_ids, calibration_set_size, calibration_ids)

\* calibrate is called at most once per run, as the run script does
Calibrate ==
    /\ pc = "idle"
    /\ calibrated = "none"
    /\ \E eps \in Epsilons, build \in EmptyQuantileBuilds :
        /\ Commit(calibrate(World, eps, build))
        /\ twin' = IF twin.pc = "idle" THEN calibrate(twin, eps, build) ELSE twin

\* the threshold the caller passes: the one calibrate returned to it or, having none,
\* a fixed one
Passed(w, t) == IF w.calibrated = "ok" THEN w.nonconformity_threshold ELSE t

TestThreshold ==
    /\ pc = "idle"
    /\ \E t \in ThresholdInputs :
        /\ Commit(test_threshold(World, Passed(World, t)))
        /\ twin' = IF twin.pc = "idle" THEN test_threshold(twin, Passed(twin, t)) ELSE twin

PredictTestset ==
    /\ pc = "idle"
    /\ \E t \in ThresholdInputs :
        /\ Commit(predict_testset(World, Passed(World, t)))
        /\ twin' = IF twin.pc = "idle" THEN predict_testset(twin, Passed(twin, t)) ELSE twin

Next ==
    \/ LoadDataset
    \/ Calibrate
    \/ TestThreshold
    \/ PredictTestset

Spec == Init /\ [][Next]_vars

-----------------------------------------------------------------------------
(* Properties.                                                              *)

IsJoint == IsIn(Chars_Rt, nonconformity_func_name)

\* the exception the code raises for a configuration it rejects
InvalidConfiguration == "ValueError"

\* 0 < e < 1
ValidEpsilon(e) == RLess(Zero, e) /\ RLess(e, One)

\* 0 <= e <= 1
QuantileInRange(e) == ~RLess(e, Zero) /\ ~RLess(One, e)

\* the provisional per-component thresholds of the most recent calibrate call
ProvisionalR ==
    np_quantile(component_scores(nonconformity_func_name, calibration_set, One, Zero),
                RSub(One, epsilon), "nan").value

Provisionalt ==
    np_quantile(component_scores(nonconformity_func_name, calibration_set, Zero, One),
                RSub(One, epsilon), "nan").value

\* the region predict returned, as found in its result or in a record
Region(r) == <<r.minimax_center_R, r.minimax_center_t, r.error_bound_R, r.error_bound_t,
               r.R_set, r.t_set>>

\* a record without the ground truth and the errors measured against it
Public(r) == <<r.object_id, r.image_id, r.data_id, r.pred_Rs, r.pred_ts, r.pred_scores,
               Region(r)>>

\* C1: in joint mode, a calibrate call whose provisional rotation or translation
\* quantile is zero ends in the DegenerateCalibration error (it does not divide by zero)
C1_ZeroQuantileIsDegenerateCalibration ==
    (/\ calibrated # "none"
     /\ IsJoint
     /\ calibration_set.size > 0
     /\ ValidEpsilon(epsilon)
     /\ (ProvisionalR = Zero \/ Provisionalt = Zero))
    => calibrated = "DegenerateCalibration"

\* C2: with a name outside the supported combinations, a run that made scoring calls
\* (test_threshold or predict_testset, over a non-empty test set) ended in the
\* InvalidConfiguration error
C2_UnsupportedNameIsRejected ==
    (nonconformity_func_name \notin SupportedNames /\ pc \in {"tested", "predicted"})
    => outcome = InvalidConfiguration

\* C3: with a supported name and epsilon in (0, 1), a calibrate call on an empty
\* calibration set ends in the InsufficientCalibrationData error and returns no
\* threshold
C3_EmptyCalibrationSetIsRejected ==
    (/\ calibrated # "none"
     /\ nonconformity_func_name \in SupportedNames
     /\ calibration_set.size = 0
     /\ ValidEpsilon(epsilon))
    => calibrated = "InsufficientCalibrationData"

\* C4: with a supported name and a non-empty calibration set, a calibrate call with
\* epsilon outside the open interval (0, 1) ends in the InvalidConfiguration error and
\* returns no threshold
C4_EpsilonOutsideOpenIntervalIsRejected ==
    (/\ calibrated # "none"
     /\ nonconformity_func_name \in SupportedNames
     /\ calibration_set.size > 0
     /\ ~ValidEpsilon(epsilon))
    => calibrated = InvalidConfiguration

\* C5: with a supported name, an empty feasible set for one observation never ends
\* predict_testset: the batch is not aborted by EmptyFeasibleSet
C5_EmptyFeasibleSetDoesNotAbort ==
    (pc = "predicted" /\ nonconformity_func_name \in SupportedNames)
    => outcome # "EmptyFeasibleSet"

\* C6: the twin run, whose test observations carry other ground truth, ends
\* predict_testset the same way with the same records up to the ground-truth and
\* error fields: same identifiers, hypotheses, ball centers, radii and feasible sets
C6_RegionIndependentOfTestGroundTruth ==
    pc = "predicted" =>
        /\ twin.pc = "predicted"
        /\ twin.outcome = outcome
        /\ twin.saved.written = saved.written
        /\ Len(twin.predict_data) = Len(predict_data)
        /\ \A i \in 1..Len(predict_data) :
               Public(twin.predict_data[i]) = Public(predict_data[i])
        /\ \A i \in 1..Len(saved.results) :
               Public(twin.saved.results[i]) = Public(saved.results[i])

\* C6 witness: a finished batch with records, the twin's test ground truth differing
\* and an error field differing with it
C6_Witness ==
    /\ pc = "predicted"
    /\ Len(predict_data) >= 2
    /\ twin.test_set.gt_Rs # test_set.gt_Rs
    /\ \E i \in 1..Len(predict_data) :
           twin.predict_data[i].minimax_center_err_R # predict_data[i].minimax_center_err_R

\* the joint score of calibration observation i under the ratios 1 / ProvisionalR and
\* 1 / Provisionalt
JointScore(ds, i, R_ratio, t_ratio) ==
    F_nonconformity_func(<<FromInt(ds.gt_Rs[i])>>, <<FromInt(ds.gt_ts[i])>>,
                         ds.pred_Rs[i], ds.pred_ts[i], ds.pred_scores[i],
                         aggregate_method_of(nonconformity_func_name),
                         normalize_of(nonconformity_func_name), R_ratio, t_ratio)[1]

\* the miscoverage test_threshold measures for a threshold under the given ratios
MeasuredEpsilon(threshold, R_ratio, t_ratio) ==
    Rat(Cardinality({i \in 1..test_set.size :
                        RGreater(JointScore(test_set, i, R_ratio, t_ratio), threshold)}),
        test_set.size)

\* C7: once a joint calibrate call has returned, the module's ratios are the
\* reciprocals of the (1 - epsilon) quantiles of the rotation-only and
\* translation-only scores, the returned threshold is the (1 - epsilon) quantile of
\* the joint scores under exactly those ratios, and later scoring used them: the
\* ratios are still in place after test_threshold and predict_testset, the measured
\* miscoverage is the one those ratios give, and every pose of every feasible set
\* scores below the threshold under them
C7_JointCalibrationTwoPasses ==
    (IsJoint /\ calibrated = "ok") =>
        LET R_ratio == RDiv(One, ProvisionalR)
            t_ratio == RDiv(One, Provisionalt)
        IN  /\ F.calibrated_R_ratio = R_ratio
            /\ F.calibrated_t_ratio = t_ratio
            /\ nonconformity_threshold =
                   np_quantile([i \in 1..calibration_set.size |->
                                   JointScore(calibration_set, i, R_ratio, t_ratio)],
                               RSub(One, epsilon), "nan").value
            /\ (pc = "tested" /\ outcome = "ok") =>
                   test_epsilon = MeasuredEpsilon(nonconformity_threshold, R_ratio, t_ratio)
            /\ pc = "predicted" =>
                   \A i \in 1..Len(predict_data) :
                       \A j \in 1..Len(predict_data[i].R_set) :
                           RLess(F_nonconformity_func(
                                     <<predict_data[i].R_set[j]>>,
                                     <<predict_data[i].t_set[j]>>,
                                     predict_data[i].pred_Rs, predict_data[i].pred_ts,
                                     predict_data[i].pred_scores,
                                     aggregate_method_of(nonconformity_func_name),
                                     normalize_of(nonconformity_func_name),
                                     R_ratio, t_ratio)[1],
                                 nonocnformaty_threshold)

\* C7 witness: a joint calibration over a non-empty calibration set returned, changed
\* the ratios, and a batch run afterwards produced a record
C7_Witness ==
    /\ IsJoint
    /\ calibrated = "ok"
    /\ calibration_set.size > 0
    /\ F.calibrated_R_ratio # One
    /\ pc = "predicted"
    /\ nonocnformaty_threshold = nonconformity_threshold
    /\ Len(predict_data) >= 1

\* C8: with a supported name, a predict_testset call that no predict call aborted
\* persists exactly one record per test observation, the i-th one holding
\* observation i's identifiers
C8_OneRecordPerTestObservation ==
    (/\ pc = "predicted"
     /\ nonconformity_func_name \in SupportedNames
     /\ outcome \in {"ok", "IndexError"}) =>
        /\ saved.written
        /\ Len(saved.results) = test_set.size
        /\ \A i \in 1..Len(saved.results) :
               /\ saved.results[i].data_id = test_set.data_ids[i]
               /\ saved.results[i].object_id = test_set.object_ids[i]

\* what predict returns for test observation i from generator state rng
PredictOf(i, rng) ==
    predict(nonconformity_func_name, F, test_set.pred_Rs[i], test_set.pred_ts[i],
            test_set.pred_scores[i], nonocnformaty_threshold, rng)

\* C9: with a supported name, seed and threshold fixed, the result recorded for a
\* test observation is the one predict returns for it when nothing was processed
\* before it (from the generator state the constructor seeded)
C9_ResultIndependentOfEarlierObservations ==
    (pc = "predicted" /\ nonconformity_func_name \in SupportedNames) =>
        \A i \in 1..Len(predict_data) :
            Region(predict_data[i]) = Region(PredictOf(i, seed % 16))

\* C10: after load_dataset, position i of the calibration set and of the test set
\* carries the object id and image id of dataset entry data_ids[i]
C10_SubsetsCarryTheirIdentifiers ==
    (pc # "constructed" /\ nonconformity_func_name \in SupportedNames) =>
        /\ \A i \in 1..calibration_set.size :
               /\ calibration_set.object_ids[i]
                      = dataset.object_ids[calibration_set.data_ids[i] + 1]
               /\ calibration_set.image_ids[i]
                      = dataset.image_ids[calibration_set.data_ids[i] + 1]
        /\ \A i \in 1..test_set.size :
               /\ test_set.object_ids[i] = dataset.object_ids[test_set.data_ids[i] + 1]
               /\ test_set.image_ids[i] = dataset.image_ids[test_set.data_ids[i] + 1]

====
